---- MODULE Spec2Model ----
(***************************************************************************)
(* Model of the TourMoreAI travel planner:                                 *)
(*   - TravelPlannerWorkflow (src/TourMoreAI.py): the four-step pipeline   *)
(*     run() and the step methods it calls;                                *)
(*   - FlightToolkit (src/flight_toolkit.py): the flight-offer tool.       *)
(*                                                                         *)
(* Python values are tagged records: None is [kind |-> "None"], a str is   *)
(* [kind |-> "str", val |-> <sequence of tokens>] (so "" is the empty      *)
(* sequence and concatenation is \o), a pydantic model instance is a       *)
(* record whose kind is the class name.                                    *)
(***************************************************************************)
EXTENDS Integers, Sequences, FiniteSets, TLC

VARIABLES
    pc,                \* position of the generator returned by run()
    travel_request,    \* argument of run()
    travel_info,       \* local of run(): result of step 1
    flight_details,    \* local of run(): result of step 2
    destination_info,  \* local of run(): result of step 3
    travel_plan,       \* local of run(): result of step 4
    trace,             \* everything run() did, in order: yields, step calls, agent calls
    warnings,          \* what was passed to logger.warning, in order
    now,               \* the date datetime.now() gives
    fpc,               \* "idle", or "returned" once FlightToolkit.search_flights returned
    fargs,             \* the arguments of the last call of FlightToolkit.search_flights
    fsent,             \* the requests that call sent to flight_offers_search.get
    fout,              \* how flight_offers_search.get ended in that call
    fresult,           \* what that call returned (or the exception that left it)
    api_key,           \* SimplifiedMapTools.api_key, set by __init__
    ppc,               \* "idle", or "returned" once search_places returned
    pquery,            \* the argument of the last call of search_places
    psent,             \* the requests that call sent with requests.get
    pout,              \* how requests.get and response.json() ended in that call
    presult            \* what that call returned

runVars == <<pc, travel_request, travel_info, flight_details, destination_info,
             travel_plan, trace, warnings>>

flightVars == <<now, fpc, fargs, fsent, fout, fresult>>

placesVars == <<api_key, ppc, pquery, psent, pout, presult>>

vars == <<runVars, flightVars, placesVars>>

----------------------------------------------------------------------------
(* Python values *)

None == [kind |-> "None"]

\* a local variable that has not been assigned yet
Unset == [kind |-> "unset"]

Str(s) == [kind |-> "str", val |-> s]

\* bool(v) for the values of the model: None and "" are falsy
Truthy(v) == /\ v.kind # "None"
             /\ ~(v.kind = "str" /\ v.val = <<>>)

IsInstance(v, cls) == v.kind = cls

\* mutant of IsNone: the check is dropped
IsNone_Dropped(v) == FALSE

\* `v is None`, the test run() makes on each step's result
IsNone(v) == v = None

\* v.model_dump() and v.<field> raise AttributeError unless v is a model instance
IsModel(v) == v.kind \in {"TravelInfo", "FlightDetails", "DestinationInfo"}

\* free text the language model may produce
Texts == {<<"alpha">>, <<"beta">>}

----------------------------------------------------------------------------
(* Response models *)

TravelInfoSet ==
    [kind : {"TravelInfo"}, destination : Texts, duration : {<<"3 days">>},
     travel_dates : {<<"next week">>}, purpose : {<<"tourism">>},
     preferences : {<<"budget">>}, special_requests : {None}]

FlightDetailsSet ==
    [kind : {"FlightDetails"}, origin : {<<"J", "F", "K">>},
     destination : {<<"L", "H", "R">>}, departure_date : {<<2026, 11, 6>>},
     return_date : {None}, recommended_flights : Texts, best_option : {<<"gamma">>}]

DestinationInfoSet ==
    [kind : {"DestinationInfo"}, accommodations : Texts, dining : {<<"delta">>},
     attractions : {<<"epsilon">>}, transportation : {<<"zeta">>}, urls : {None}]

\* the record built in the except branch of get_destination_info
fallback_info ==
    [kind |-> "DestinationInfo",
     accommodations |-> <<"Could not retrieve accommodations due to an error. Please search for hotels in your destination area.">>,
     dining |-> <<"Could not retrieve dining information due to an error. Please search for restaurants in your destination area.">>,
     attractions |-> <<"Could not retrieve attractions due to an error. Please search for tourist spots in your destination area.">>,
     transportation |-> <<"Could not retrieve transportation options.">>,
     urls |-> None]

----------------------------------------------------------------------------
(* Agent.run: the remote language-model call.  Its outcome is an exception, *)
(* or a response (possibly no response object at all) carrying a content:   *)
(* None, an empty string, free text, or an instance of the response model.  *)

Raises == [kind |-> "raises"]
NoResponse == [kind |-> "None"]
RunResponse(c) == [kind |-> "RunResponse", content |-> c]

Contents(models) == {None, Str(<<>>)} \cup {Str(t) : t \in Texts} \cup models

AgentOutcomes(models) ==
    {Raises, NoResponse} \cup {RunResponse(c) : c \in Contents(models)}

----------------------------------------------------------------------------
(* Entries of trace *)

\* the generator yielded RunResponse(event=event, content=content)
YieldEvent(event, content) == [type |-> "yield", event |-> event, content |-> content]

\* run() called self.<name>(*args)
StepEvent(name, args) == [type |-> "step", name |-> name, args |-> args]

\* self.<agent>.run(input) was called and ended with outcome
AgentEvent(agent, input, outcome) ==
    [type |-> "agent", agent |-> agent, input |-> input, outcome |-> outcome]

\* RunEvent values carried by the notifications
run_response == "RunResponse"
workflow_completed == "WorkflowCompleted"

\* the content of the progress notification yielded before step k
Progress ==
    <<Str(<<"Extracting travel details...">>),
      Str(<<"Searching for flights...">>),
      Str(<<"Finding accommodation, dining, and attractions...">>),
      Str(<<"Generating your complete travel plan...">>)>>

\* mutant of Apology: the apologies of steps 1 and 2 exchanged
Apology_Swapped ==
    <<Str(<<"Could not find suitable flights for your travel dates. Please try different dates or destinations.">>),
      Str(<<"Sorry, I couldn't extract the necessary travel information. Please provide more details about your trip.">>),
      Str(<<"Could not find detailed information about your destination. Let's continue with what we have.">>)>>

\* the content of the final notification yielded when step k returned None
Apology ==
    <<Str(<<"Sorry, I couldn't extract the necessary travel information. Please provide more details about your trip.">>),
      Str(<<"Could not find suitable flights for your travel dates. Please try different dates or destinations.">>),
      Str(<<"Could not find detailed information about your destination. Let's continue with what we have.">>)>>

\* the f-string yielded when generate_travel_plan returned None
PartialReport(fd, di) ==
    Str(<<"Could not generate a complete travel plan. Here's what I found so far:\n\n">>
        \o <<"**Flight Options**: ">> \o fd.recommended_flights \o <<"\n\n">>
        \o <<"**Best Flight**: ">> \o fd.best_option \o <<"\n\n">>
        \o <<"**Accommodations**: ">> \o di.accommodations \o <<"\n\n">>
        \o <<"**Dining Options**: ">> \o di.dining \o <<"\n\n">>
        \o <<"**Attractions**: ">> \o di.attractions \o <<"\n\n">>
        \o <<"**Local Transportation**: ">> \o di.transportation)

----------------------------------------------------------------------------
(* The step methods.  Each is an operator of the method's arguments and of  *)
(* the outcome of its remote call; it gives the returned value (ret), the   *)
(* agent calls made (calls) and the warnings logged (warns).                *)

\* the two checks every step method makes on the response before returning
\* response.content; response.content on a missing response raises
\* AttributeError, which the method's except clause catches
CheckResponse(out, cls, what, failed, onError) ==
    CASE out.kind = "raises" ->
            [ret |-> onError, warns |-> <<failed>>]
      [] out.kind = "None" ->
            [ret |-> onError, warns |-> <<"Empty " \o what \o " response", failed>>]
      [] OTHER ->
            [ret |-> out.content,
             warns |-> (IF ~Truthy(out.content)
                          THEN <<"Empty " \o what \o " response">> ELSE <<>>)
                       \o (IF cls # "" /\ ~IsInstance(out.content, cls)
                             THEN <<"Invalid response type for " \o what>> ELSE <<>>)]

extract_travel_info(request, out) ==
    LET r == CheckResponse(out, "TravelInfo", "Travel Information",
                           "Failed to extract travel info", None)
    IN  [ret |-> r.ret, warns |-> r.warns,
         calls |-> <<AgentEvent("travel_info_agent", request, out)>>]

\* the f-string of search_flights
flight_search_query(ti) ==
    Str(<<"I need flights to ">> \o ti.destination \o <<". ">>
        \o <<"Departing around ">> \o ti.travel_dates \o <<". ">>
        \o <<"My trip is for ">> \o ti.duration \o <<". ">>
        \o <<"Preferences: ">> \o ti.preferences \o <<". ">>
        \o <<"Purpose: ">> \o ti.purpose \o <<". ">>)

search_flights(ti, out) ==
    IF ~IsModel(ti)
      THEN \* ti.destination raises AttributeError inside the try
           [ret |-> None, warns |-> <<"Failed to search flights">>, calls |-> <<>>]
      ELSE LET r == CheckResponse(out, "FlightDetails", "Flight Search",
                                  "Failed to search flights", None)
           IN  [ret |-> r.ret, warns |-> r.warns,
                calls |-> <<AgentEvent("flight_search_agent", flight_search_query(ti), out)>>]

\* the f-string of get_destination_info
destination_query(ti) ==
    Str(<<"I'm traveling to ">> \o ti.destination \o <<" for ">> \o ti.duration \o <<". ">>
        \o <<"Please find me good ">> \o ti.preferences \o <<" accommodations, ">>
        \o <<"restaurants, tourist attractions, and public transportation options near city center. ">>
        \o <<"Purpose of visit: ">> \o ti.purpose \o <<". ">>)

\* mutant of get_destination_info: the except branch returns None, as the
\* except branches of the other step methods do
get_destination_info_NoFallback(ti, out) ==
    IF ~IsModel(ti)
      THEN [ret |-> None, warns |-> <<"Failed to get destination info">>, calls |-> <<>>]
      ELSE LET r == CheckResponse(out, "DestinationInfo", "Destination Information",
                                  "Failed to get destination info", None)
           IN  [ret |-> r.ret, warns |-> r.warns,
                calls |-> <<AgentEvent("destination_info_agent", destination_query(ti), out)>>]

\* mutant of get_destination_info: an empty content is replaced by the
\* fallback record too
get_destination_info_Guarded(ti, out) ==
    IF ~IsModel(ti)
      THEN [ret |-> fallback_info, warns |-> <<"Failed to get destination info">>,
            calls |-> <<>>]
      ELSE LET r == CheckResponse(out, "DestinationInfo", "Destination Information",
                                  "Failed to get destination info", fallback_info)
           IN  [ret |-> IF Truthy(r.ret) THEN r.ret ELSE fallback_info, warns |-> r.warns,
                calls |-> <<AgentEvent("destination_info_agent", destination_query(ti), out)>>]

get_destination_info(ti, out) ==
    IF ~IsModel(ti)
      THEN [ret |-> fallback_info, warns |-> <<"Failed to get destination info">>,
            calls |-> <<>>]
      ELSE LET r == CheckResponse(out, "DestinationInfo", "Destination Information",
                                  "Failed to get destination info", fallback_info)
           IN  [ret |-> r.ret, warns |-> r.warns,
                calls |-> <<AgentEvent("destination_info_agent", destination_query(ti), out)>>]

\* pydantic's model_dump: the instance's fields as a dict
model_dump(v) == [f \in DOMAIN v \ {"kind"} |-> v[f]]

\* json.dumps(travel_plan_input, indent=4)
travel_plan_input(ti, fd, di) ==
    [kind |-> "json_str",
     doc |-> [travel_info |-> model_dump(ti), flight_details |-> model_dump(fd),
              destination_info |-> model_dump(di)]]

generate_travel_plan(ti, fd, di, out) ==
    IF ~IsModel(ti) \/ ~IsModel(fd) \/ ~IsModel(di)
      THEN \* model_dump raises AttributeError inside the try
           [ret |-> None, warns |-> <<"Failed to generate travel plan">>, calls |-> <<>>]
      ELSE LET r == CheckResponse(out, "", "Travel Plan",
                                  "Failed to generate travel plan", None)
           IN  [ret |-> r.ret, warns |-> r.warns,
                calls |-> <<AgentEvent("travel_plan_agent", travel_plan_input(ti, fd, di), out)>>]

----------------------------------------------------------------------------
(* Dates.  A datetime is [year, month, day]; a date string is the sequence  *)
(* of its fields between the "-" separators, each a string of digits, so    *)
(* that "2026-12-31" is <<"2026", "12", "31">> and "" is <<>>.              *)

DateTime(y, m, d) == [year |-> y, month |-> m, day |-> d]

IsLeap(y) == y % 4 = 0 /\ (y % 100 # 0 \/ y % 400 = 0)

DaysInMonth(y, m) ==
    CASE m = 2 -> IF IsLeap(y) THEN 29 ELSE 28
      [] m \in {4, 6, 9, 11} -> 30
      [] OTHER -> 31

RECURSIVE DaysBeforeMonth(_, _)
DaysBeforeMonth(y, m) ==
    IF m = 1 THEN 0 ELSE DaysBeforeMonth(y, m - 1) + DaysInMonth(y, m - 1)

DaysBeforeYear(y) ==
    (y - 1) * 365 + ((y - 1) \div 4) - ((y - 1) \div 100) + ((y - 1) \div 400)

\* datetime.toordinal
ToOrdinal(dt) == DaysBeforeYear(dt.year) + DaysBeforeMonth(dt.year, dt.month) + dt.day

\* datetime.fromordinal
FromOrdinal(ord) ==
    LET n0   == ord - 1
        n400 == n0 \div 146097
        r400 == n0 % 146097
        n100 == r400 \div 36524
        r100 == r400 % 36524
        n4   == r100 \div 1461
        r4   == r100 % 1461
        n1   == r4 \div 365
        n    == r4 % 365
        year == n400 * 400 + 1 + n100 * 100 + n4 * 4 + n1
    IN  IF n1 = 4 \/ n100 = 4
          THEN DateTime(year - 1, 12, 31)
          ELSE LET est   == (n + 50) \div 32
                   month == IF DaysBeforeMonth(year, est) > n THEN est - 1 ELSE est
               IN  DateTime(year, month, n - DaysBeforeMonth(year, month) + 1)

\* dt + timedelta(days=k)
AddDays(dt, k) == FromOrdinal(ToOrdinal(dt) + k)

\* a < b on datetimes: the fields are compared in order
DateLess(a, b) ==
    \/ a.year < b.year
    \/ a.year = b.year /\ a.month < b.month
    \/ a.year = b.year /\ a.month = b.month /\ a.day < b.day

\* a number as two digits, as %m and %d print it
Pad2(n) == IF n < 10 THEN "0" \o ToString(n) ELSE ToString(n)

\* the strings %m and %d accept, with or without the leading zero
NumOfToken ==
    [t \in {ToString(n) : n \in 1..99} \cup {Pad2(n) : n \in 1..9} |->
        CHOOSE n \in 1..99 : t \in {ToString(n), Pad2(n)}]

\* the strings %Y accepts: four digits
YearOfToken == [t \in {ToString(y) : y \in 2020..2030} |-> CHOOSE y \in 2020..2030 : t = ToString(y)]

\* whether datetime.strptime(s, '%Y-%m-%d') returns (it raises ValueError otherwise)
Parses(s) ==
    /\ s.kind = "str"
    /\ Len(s.val) = 3
    /\ s.val[1] \in DOMAIN YearOfToken
    /\ s.val[2] \in DOMAIN NumOfToken
    /\ s.val[3] \in DOMAIN NumOfToken
    /\ NumOfToken[s.val[2]] \in 1..12
    /\ NumOfToken[s.val[3]] \in 1..DaysInMonth(YearOfToken[s.val[1]], NumOfToken[s.val[2]])

\* datetime.strptime(s, '%Y-%m-%d'), where it returns
strptime(s) == DateTime(YearOfToken[s.val[1]], NumOfToken[s.val[2]], NumOfToken[s.val[3]])

\* dt.strftime('%Y-%m-%d')
strftime(dt) == Str(<<ToString(dt.year), Pad2(dt.month), Pad2(dt.day)>>)

\* str(e) of the ValueError strptime raises on s: it quotes s
StrptimeError(s) == <<"time data '">> \o s.val \o <<"' does not match format '%Y-%m-%d'">>

----------------------------------------------------------------------------
(* FlightToolkit.  An exception is [kind |-> "exc", type, msg]; a dict is a  *)
(* function from its keys, so that a key the dict lacks is outside DOMAIN.   *)

Exc(type, msg) == [kind |-> "exc", type |-> type, msg |-> msg]

IntVal(n) == [kind |-> "int", val |-> n]

\* d.get(key, default)
DictGet(d, key, default) == IF key \in DOMAIN d THEN d[key] ELSE default

\* `not v` for an argument of search_flights
Falsy(v) ==
    \/ v.kind = "None"
    \/ v.kind = "str" /\ v.val = <<>>
    \/ v.kind = "int" /\ v.val = 0

\* mutant of WrongLength: `and` in place of `or`
WrongLength_Both(origin, destination) == Len(origin.val) # 3 /\ Len(destination.val) # 3

\* the length test of _validate_inputs
WrongLength(origin, destination) == Len(origin.val) # 3 \/ Len(destination.val) # 3

\* _validate_inputs: None when it returns, the ValueError it raises otherwise
_validate_inputs(origin, destination, departure_date, return_date, adults) ==
    IF Falsy(origin) \/ Falsy(destination)
      THEN Exc("ValueError", <<"Origin and destination airport codes are required">>)
    ELSE IF WrongLength(origin, destination)
      THEN Exc("ValueError", <<"Airport codes must be 3-letter IATA codes">>)
    ELSE IF ~Falsy(departure_date) /\ ~Parses(departure_date)
      THEN Exc("ValueError", <<"Departure date must be in YYYY-MM-DD format">>)
    ELSE IF ~Falsy(return_date) /\ ~Parses(return_date)
      THEN \* the except clause re-raises what strptime raised when its text
           \* holds "must be after", and replaces it otherwise
           IF \E i \in DOMAIN StrptimeError(return_date) :
                   StrptimeError(return_date)[i] = "must be after"
             THEN Exc("ValueError", StrptimeError(return_date))
             ELSE Exc("ValueError", <<"Return date must be in YYYY-MM-DD format">>)
    ELSE IF /\ ~Falsy(return_date)
            /\ ~Falsy(departure_date)
            /\ DateLess(strptime(return_date), strptime(departure_date))
      THEN Exc("ValueError", <<"Return date must be after departure date">>)
    ELSE IF adults.kind # "int" \/ adults.val < 1
      THEN Exc("ValueError", <<"Number of adults must be a positive integer">>)
    ELSE None

\* "; ".join(parts)
RECURSIVE Join(_)
Join(parts) ==
    IF Len(parts) = 0 THEN <<>>
    ELSE IF Len(parts) = 1 THEN parts[1]
    ELSE parts[1] \o <<"; ">> \o Join(Tail(parts))

\* the text _parse_error_response builds for one entry of the body's errors
ErrorDetail(err) ==
    DictGet(err, "title", <<"Error">>) \o <<": ">> \o DictGet(err, "detail", <<"Unknown error">>)
    \o (IF "source" \in DOMAIN err /\ "parameter" \in DOMAIN err["source"]
          THEN <<" (parameter: ">> \o err["source"]["parameter"] \o <<")">>
          ELSE <<>>)

\* _parse_error_response; json.loads raises on a body that is no JSON, and the
\* except clause then gives str(error)
_parse_error_response(error) ==
    IF /\ "response" \in DOMAIN error
       /\ "body" \in DOMAIN error.response
       /\ error.response.body.kind = "json"
       /\ "errors" \in DOMAIN error.response.body.doc
       /\ error.response.body.doc["errors"] # <<>>
      THEN LET errs == error.response.body.doc["errors"]
           IN  Join([i \in DOMAIN errs |-> ErrorDetail(errs[i])])
      ELSE error.str

\* mutant of ProcessSegment: the arrival terminal is read from the departure
ProcessSegment_CopiedTerminal(segment) ==
    [departure |-> [iataCode |-> segment["departure"]["iataCode"],
                    terminal |-> DictGet(segment["departure"], "terminal", "N/A"),
                    at |-> segment["departure"]["at"]],
     arrival |-> [iataCode |-> segment["arrival"]["iataCode"],
                  terminal |-> DictGet(segment["departure"], "terminal", "N/A"),
                  at |-> segment["arrival"]["at"]],
     carrierCode |-> segment["carrierCode"],
     flightNumber |-> segment["number"],
     aircraft |-> DictGet(DictGet(segment, "aircraft", <<>>), "code", "N/A"),
     duration |-> DictGet(segment, "duration", "N/A")]

\* the reshaped segment of _process_flight_results
ProcessSegment(segment) ==
    [departure |-> [iataCode |-> segment["departure"]["iataCode"],
                    terminal |-> DictGet(segment["departure"], "terminal", "N/A"),
                    at |-> segment["departure"]["at"]],
     arrival |-> [iataCode |-> segment["arrival"]["iataCode"],
                  terminal |-> DictGet(segment["arrival"], "terminal", "N/A"),
                  at |-> segment["arrival"]["at"]],
     carrierCode |-> segment["carrierCode"],
     flightNumber |-> segment["number"],
     aircraft |-> DictGet(DictGet(segment, "aircraft", <<>>), "code", "N/A"),
     duration |-> DictGet(segment, "duration", "N/A")]

ProcessItinerary(itinerary) ==
    [duration |-> DictGet(itinerary, "duration", "N/A"),
     segments |-> [i \in DOMAIN itinerary["segments"] |->
                      ProcessSegment(itinerary["segments"][i])]]

ProcessOffer(offer) ==
    [id |-> offer["id"],
     price |-> [total |-> offer["price"]["total"], currency |-> offer["price"]["currency"]],
     itineraries |-> [i \in DOMAIN offer["itineraries"] |->
                         ProcessItinerary(offer["itineraries"][i])]]

\* the keys _process_flight_results reads with [] : a missing one raises KeyError
SegmentOk(segment) ==
    /\ {"departure", "arrival", "carrierCode", "number"} \subseteq DOMAIN segment
    /\ {"iataCode", "at"} \subseteq DOMAIN segment["departure"]
    /\ {"iataCode", "at"} \subseteq DOMAIN segment["arrival"]

ItineraryOk(itinerary) ==
    /\ "segments" \in DOMAIN itinerary
    /\ \A i \in DOMAIN itinerary["segments"] : SegmentOk(itinerary["segments"][i])

OfferOk(offer) ==
    /\ {"id", "price", "itineraries"} \subseteq DOMAIN offer
    /\ {"total", "currency"} \subseteq DOMAIN offer["price"]
    /\ \A i \in DOMAIN offer["itineraries"] : ItineraryOk(offer["itineraries"][i])

\* mutant of _process_flight_results: the loop leaves the last offer out
_process_flight_results_DropsLast(flight_data) ==
    IF flight_data.kind = "None" \/ flight_data.items = <<>>
      THEN [count |-> 0, flights |-> <<>>]
      ELSE IF \A i \in DOMAIN flight_data.items : OfferOk(flight_data.items[i])
             THEN [count |-> Len(flight_data.items),
                   flights |-> [i \in 1..(Len(flight_data.items) - 1) |->
                                   ProcessOffer(flight_data.items[i])]]
             ELSE Exc("KeyError", <<"missing key">>)

\* _process_flight_results: the dict it returns, or the KeyError it raises
\* (whose text names the missing key)
_process_flight_results(flight_data) ==
    IF flight_data.kind = "None" \/ flight_data.items = <<>>
      THEN [count |-> 0, flights |-> <<>>]
      ELSE IF \A i \in DOMAIN flight_data.items : OfferOk(flight_data.items[i])
             THEN [count |-> Len(flight_data.items),
                   flights |-> [i \in DOMAIN flight_data.items |->
                                   ProcessOffer(flight_data.items[i])]]
             ELSE Exc("KeyError", <<"missing key">>)

----------------------------------------------------------------------------
(* JSON text.  A JSON text is the sequence of its tokens (white space left   *)
(* out): punctuation, strings and numbers.  json.dumps writes the keys of a  *)
(* dict in the order in which the code inserted them.                        *)

JPunct(c) == [t |-> "punct", v |-> c]
JString(s) == [t |-> "string", v |-> s]
JNumber(s) == [t |-> "number", v |-> s]

\* the pieces with a comma between each two
RECURSIVE CommaJoin(_)
CommaJoin(pieces) ==
    IF Len(pieces) = 0 THEN <<>>
    ELSE IF Len(pieces) = 1 THEN pieces[1]
    ELSE pieces[1] \o <<JPunct(",")>> \o CommaJoin(Tail(pieces))

\* the text of a list whose items have the texts items
\* (items \o <<>> is items, as a sequence)
DumpArray(items) == <<JPunct("[")>> \o CommaJoin(items \o <<>>) \o <<JPunct("]")>>

\* the text of a dict with the keys keys, in that order, whose values have the texts vals
DumpObject(keys, vals) ==
    <<JPunct("{")>>
    \o CommaJoin([i \in DOMAIN keys |-> <<JString(keys[i]), JPunct(":")>> \o vals[i]] \o <<>>)
    \o <<JPunct("}")>>

\* what json.loads gives: a tree of objects, arrays, strings and numbers
JFail == [ok |-> FALSE]

RECURSIVE ParseValue(_, _), ParseElements(_, _, _), ParseMembers(_, _, _, _)

ParseValue(toks, i) ==
    IF i > Len(toks) THEN JFail
    ELSE IF toks[i].t = "string"
      THEN [ok |-> TRUE, val |-> [j |-> "str", v |-> toks[i].v], next |-> i + 1]
    ELSE IF toks[i].t = "number"
      THEN [ok |-> TRUE, val |-> [j |-> "num", v |-> toks[i].v], next |-> i + 1]
    ELSE IF toks[i] = JPunct("[")
      THEN IF i + 1 <= Len(toks) /\ toks[i + 1] = JPunct("]")
             THEN [ok |-> TRUE, val |-> [j |-> "arr", items |-> <<>>], next |-> i + 2]
             ELSE ParseElements(toks, i + 1, <<>>)
    ELSE IF toks[i] = JPunct("{")
      THEN IF i + 1 <= Len(toks) /\ toks[i + 1] = JPunct("}")
             THEN [ok |-> TRUE, val |-> [j |-> "obj", keys |-> <<>>, vals |-> <<>>],
                   next |-> i + 2]
             ELSE ParseMembers(toks, i + 1, <<>>, <<>>)
    ELSE JFail

ParseElements(toks, i, acc) ==
    LET r == ParseValue(toks, i) IN
    IF ~r.ok \/ r.next > Len(toks) THEN JFail
    ELSE IF toks[r.next] = JPunct(",")
      THEN ParseElements(toks, r.next + 1, Append(acc, r.val))
    ELSE IF toks[r.next] = JPunct("]")
      THEN [ok |-> TRUE, val |-> [j |-> "arr", items |-> Append(acc, r.val)],
            next |-> r.next + 1]
    ELSE JFail

ParseMembers(toks, i, keys, vals) ==
    IF i + 1 > Len(toks) \/ toks[i].t # "string" \/ toks[i + 1] # JPunct(":") THEN JFail
    ELSE LET r == ParseValue(toks, i + 2) IN
         IF ~r.ok \/ r.next > Len(toks) THEN JFail
         ELSE IF toks[r.next] = JPunct(",")
           THEN ParseMembers(toks, r.next + 1, Append(keys, toks[i].v), Append(vals, r.val))
         ELSE IF toks[r.next] = JPunct("}")
           THEN [ok |-> TRUE,
                 val |-> [j |-> "obj", keys |-> Append(keys, toks[i].v),
                          vals |-> Append(vals, r.val)],
                 next |-> r.next + 1]
         ELSE JFail

\* json.loads(text): the tree, or JFail where it raises
json_loads(toks) ==
    LET r == ParseValue(toks, 1) IN
    IF r.ok /\ r.next = Len(toks) + 1 THEN [ok |-> TRUE, val |-> r.val] ELSE JFail

\* obj[key] and `key in obj` on a tree that is an object
JHas(obj, key) == obj.j = "obj" /\ \E i \in DOMAIN obj.keys : obj.keys[i] = key
JGet(obj, key) == obj.vals[CHOOSE i \in DOMAIN obj.keys : obj.keys[i] = key]

\* the text of the dict _process_flight_results returns
DumpEndpoint(e) ==
    DumpObject(<<"iataCode", "terminal", "at">>,
               <<<<JString(e.iataCode)>>, <<JString(e.terminal)>>, <<JString(e.at)>>>>)

DumpSegment(s) ==
    DumpObject(<<"departure", "arrival", "carrierCode", "flightNumber", "aircraft", "duration">>,
               <<DumpEndpoint(s.departure), DumpEndpoint(s.arrival),
                 <<JString(s.carrierCode)>>, <<JString(s.flightNumber)>>,
                 <<JString(s.aircraft)>>, <<JString(s.duration)>>>>)

DumpItinerary(it) ==
    DumpObject(<<"duration", "segments">>,
               <<<<JString(it.duration)>>,
                 DumpArray([i \in DOMAIN it.segments |-> DumpSegment(it.segments[i])])>>)

DumpFlight(f) ==
    DumpObject(<<"id", "price", "itineraries">>,
               <<<<JString(f.id)>>,
                 DumpObject(<<"total", "currency">>,
                            <<<<JString(f.price.total)>>, <<JString(f.price.currency)>>>>),
                 DumpArray([i \in DOMAIN f.itineraries |-> DumpItinerary(f.itineraries[i])])>>)

DumpResults(doc) ==
    DumpObject(<<"count", "flights">>,
               <<<<JNumber(ToString(doc.count))>>,
                 DumpArray([i \in DOMAIN doc.flights |-> DumpFlight(doc.flights[i])])>>)

\* json.dumps(processed_results, indent=2): a str whose text is the document's
json_dumps(doc) == [kind |-> "str", json |-> DumpResults(doc)]

\* the strings search_flights accepts as travel_class
TravelClasses == {<<"ECONOMY">>, <<"PREMIUM_ECONOMY">>, <<"BUSINESS">>, <<"FIRST">>}

\* mutant of DepartureDate: today's date in place of tomorrow's
DepartureDate_Today(departure_date, today) ==
    IF Falsy(departure_date) THEN strftime(today) ELSE departure_date

\* the departure date search_flights sends: tomorrow when none was given
DepartureDate(departure_date, today) ==
    IF Falsy(departure_date) THEN strftime(AddDays(today, 1)) ELSE departure_date

\* the kwargs of flight_offers_search.get
RequestKwargs(a, today) ==
    LET keys == {"originLocationCode", "destinationLocationCode", "departureDate",
                 "adults", "currencyCode", "max"}
                \cup (IF ~Falsy(a.return_date) THEN {"returnDate"} ELSE {})
                \cup (IF a.non_stop THEN {"nonStop"} ELSE {})
                \cup (IF ~Falsy(a.travel_class) /\ a.travel_class.val \in TravelClasses
                        THEN {"travelClass"} ELSE {})
    IN  [k \in keys |->
            CASE k = "originLocationCode" -> a.origin
              [] k = "destinationLocationCode" -> a.destination
              [] k = "departureDate" -> DepartureDate(a.departure_date, today)
              [] k = "adults" -> a.adults
              [] k = "currencyCode" -> a.currency
              [] k = "max" -> a.max_results
              [] k = "returnDate" -> a.return_date
              [] k = "nonStop" -> Str(<<"true">>)
              [] k = "travelClass" -> a.travel_class]

\* the body of the try of search_flights with remote outcome out: what it
\* returns or the exception it raises (value), and the requests it sent (sent)
TryBody(a, today, out) ==
    LET v == _validate_inputs(a.origin, a.destination, a.departure_date,
                              a.return_date, a.adults)
    IN  IF v # None
          THEN [value |-> v, sent |-> <<>>]
          ELSE LET sent == <<RequestKwargs(a, today)>> IN
               IF out.kind = "ResponseError"
                 THEN [value |-> Exc("ResponseError", out.error), sent |-> sent]
               ELSE IF out.kind = "Exception"
                 THEN [value |-> Exc("Exception", out.msg), sent |-> sent]
               ELSE LET processed == _process_flight_results(out.data) IN
                    IF "kind" \in DOMAIN processed
                      THEN [value |-> processed, sent |-> sent]
                      ELSE [value |-> json_dumps(processed), sent |-> sent]

\* mutant of ExceptClauses: the last except clause is missing
ExceptClauses_NoCatchAll(e) ==
    CASE e.type = "ResponseError" ->
            Str(<<"Error searching flights: ">> \o _parse_error_response(e.msg))
      [] e.type = "ValueError" -> Str(<<"Validation error: ">> \o e.msg)
      [] OTHER -> [kind |-> "raised", exc |-> e]

\* the three except clauses of search_flights: what is returned for exception e
ExceptClauses(e) ==
    CASE e.type = "ResponseError" ->
            Str(<<"Error searching flights: ">> \o _parse_error_response(e.msg))
      [] e.type = "ValueError" -> Str(<<"Validation error: ">> \o e.msg)
      [] OTHER -> Str(<<"An unexpected error occurred: ">> \o e.msg)

\* FlightToolkit.search_flights called with arguments a on date today
FlightToolkit_search_flights(a, today, out) ==
    LET r == TryBody(a, today, out)
    IN  [ret |-> IF r.value.kind = "exc" THEN ExceptClauses(r.value) ELSE r.value,
         sent |-> r.sent]

----------------------------------------------------------------------------
(* The inputs of the flight tool *)

\* the longest airport code tried
MaxCodeLen == 4

\* the most offers the aggregator returns
MaxOffers == 2

\* the most days that pass
MaxTicks == 2

CodeOfLen(n) == Str(SubSeq(<<"J", "F", "K", "X", "Y", "Z", "W">>, 1, n))

Codes == {None} \cup {CodeOfLen(n) : n \in 0..MaxCodeLen}

\* the dates on which the model starts: before a year's end, before a leap day
StartDates == {DateTime(2026, 12, 30), DateTime(2028, 2, 27)}

DepartureDates ==
    {Str(<<>>), Str(<<"2026", "12", "31">>), Str(<<"2027", "1", "1">>),
     Str(<<"2028", "02", "29">>), Str(<<"2026", "02", "29">>), Str(<<"31/12/2026">>)}

ReturnDates ==
    {None, Str(<<>>), Str(<<"2026", "12", "30">>), Str(<<"2027", "01", "01">>),
     Str(<<"2028", "03", "01">>), Str(<<"2026", "13", "01">>), Str(<<"must be after">>)}

FlightArgs ==
    [origin : Codes, destination : Codes, departure_date : DepartureDates,
     return_date : ReturnDates, adults : {IntVal(0), IntVal(1), Str(<<"2">>)},
     currency : {Str(<<"INR">>)}, max_results : {IntVal(5)}, non_stop : BOOLEAN,
     travel_class : {None, Str(<<"BUSINESS">>), Str(<<"LUXURY">>)}]

\* raw segments, itineraries and offers of the aggregator
SegFull ==
    [departure |-> [iataCode |-> "JFK", terminal |-> "4", at |-> "T1"],
     arrival |-> [iataCode |-> "LHR", terminal |-> "5", at |-> "T2"],
     carrierCode |-> "BA", number |-> "178", aircraft |-> [code |-> "777"],
     duration |-> "PT7H"]

SegBare ==
    [departure |-> [iataCode |-> "JFK", at |-> "T1"],
     arrival |-> [iataCode |-> "LHR", at |-> "T2"],
     carrierCode |-> "BA", number |-> "178"]

\* a segment with a departure terminal only and an aircraft without a code
SegMixed ==
    [departure |-> [iataCode |-> "LHR", terminal |-> "3", at |-> "T3"],
     arrival |-> [iataCode |-> "DEL", at |-> "T4"],
     carrierCode |-> "AI", number |-> "112", aircraft |-> [name |-> "Dreamliner"],
     duration |-> "PT9H"]

ItinFull == [duration |-> "PT7H", segments |-> <<SegFull>>]
ItinBare == [segments |-> <<SegBare, SegMixed>>]

Offers ==
    {[id |-> "1", price |-> [total |-> "500.00", currency |-> "INR"],
      itineraries |-> <<ItinFull>>],
     [id |-> "2", price |-> [total |-> "900.00", currency |-> "INR"],
      itineraries |-> <<ItinBare, ItinFull>>],
     [price |-> [total |-> "100.00", currency |-> "INR"], itineraries |-> <<ItinFull>>]}

OfferLists == UNION {[1..n -> Offers] : n \in 0..MaxOffers}

\* the ResponseErrors of the aggregator's client
ResponseErrors ==
    {[str |-> <<"[---]">>],
     [str |-> <<"[500]">>, response |-> [body |-> None]],
     [str |-> <<"[502]">>, response |-> [body |-> [kind |-> "text"]]],
     [str |-> <<"[404]">>, response |-> [body |-> [kind |-> "json", doc |-> [warnings |-> <<>>]]]],
     [str |-> <<"[400]">>, response |-> [body |-> [kind |-> "json", doc |-> [errors |-> <<>>]]]],
     [str |-> <<"[400]">>, response |-> [body |-> [kind |-> "json", doc |->
        [errors |-> <<[title |-> <<"INVALID DATE">>, detail |-> <<"Date is in the past">>,
                       source |-> [parameter |-> <<"departureDate">>]],
                      [detail |-> <<"bad">>, source |-> [pointer |-> <<"x">>]]>>]]]]}

\* the outcomes of flight_offers_search.get
RemoteOutcomes ==
    {[kind |-> "data", data |-> [kind |-> "None"]]}
    \cup {[kind |-> "data", data |-> [kind |-> "list", items |-> l]] : l \in OfferLists}
    \cup {[kind |-> "ResponseError", error |-> e] : e \in ResponseErrors}
    \cup {[kind |-> "Exception", msg |-> <<"Connection reset by peer">>]}

\* no remote call is made when the validation fails
NotCalled == [kind |-> "not called"]

----------------------------------------------------------------------------
(* run(): a generator.  Each action is one resumption of the generator, from *)
(* the yield it is suspended at to the next yield, to its return, or to an   *)
(* exception leaving it.                                                     *)
(*   pc = "created"      run(travel_request) was called, nothing ran yet     *)
(*   pc = "yield1".."yield4"  suspended at the progress yield before step k  *)
(*   pc = "yield_final"  suspended at a yield tagged workflow_completed      *)
(*   pc = "returned"     the generator is exhausted                          *)
(*   pc = "raised"       an exception left the generator                     *)

Init ==
    /\ pc = "created"
    /\ travel_request \in {Str(t) : t \in Texts}
    /\ travel_info = Unset
    /\ flight_details = Unset
    /\ destination_info = Unset
    /\ travel_plan = Unset
    /\ trace = <<>>
    /\ warnings = <<>>
    /\ now = DateTime(2026, 12, 30)
    /\ fpc = "idle"
    /\ fargs = Unset
    /\ fsent = <<>>
    /\ fout = NotCalled
    /\ fresult = Unset
    /\ api_key = Str(<<"AIza">>)
    /\ ppc = "idle"
    /\ pquery = Unset
    /\ psent = <<>>
    /\ pout = NotCalled
    /\ presult = Unset

\* lines 259-262: up to the first yield
RunStart ==
    /\ pc = "created"
    /\ trace' = Append(trace, YieldEvent(run_response, Progress[1]))
    /\ pc' = "yield1"
    /\ UNCHANGED <<travel_request, travel_info, flight_details, destination_info,
                   travel_plan, warnings, flightVars, placesVars>>

\* lines 263-273: step 1, then the apology or the progress yield of step 2
RunStep1 ==
    /\ pc = "yield1"
    /\ \E out \in AgentOutcomes(TravelInfoSet) :
         LET r == extract_travel_info(travel_request, out)
             t == trace \o <<StepEvent("extract_travel_info", <<travel_request>>)>> \o r.calls
         IN  /\ travel_info' = r.ret
             /\ warnings' = warnings \o r.warns
             /\ IF IsNone(r.ret)
                  THEN /\ trace' = Append(t, YieldEvent(workflow_completed, Apology[1]))
                       /\ pc' = "yield_final"
                  ELSE /\ trace' = Append(t, YieldEvent(run_response, Progress[2]))
                       /\ pc' = "yield2"
    /\ UNCHANGED <<travel_request, flight_details, destination_info, travel_plan, flightVars, placesVars>>

\* lines 274-284: step 2, then the apology or the progress yield of step 3
RunStep2 ==
    /\ pc = "yield2"
    /\ \E out \in AgentOutcomes(FlightDetailsSet) :
         LET r == search_flights(travel_info, out)
             t == trace \o <<StepEvent("search_flights", <<travel_info>>)>> \o r.calls
         IN  /\ flight_details' = r.ret
             /\ warnings' = warnings \o r.warns
             /\ IF IsNone(r.ret)
                  THEN /\ trace' = Append(t, YieldEvent(workflow_completed, Apology[2]))
                       /\ pc' = "yield_final"
                  ELSE /\ trace' = Append(t, YieldEvent(run_response, Progress[3]))
                       /\ pc' = "yield3"
    /\ UNCHANGED <<travel_request, travel_info, destination_info, travel_plan, flightVars, placesVars>>

\* lines 285-295: step 3, then the apology or the progress yield of step 4
RunStep3 ==
    /\ pc = "yield3"
    /\ \E out \in AgentOutcomes(DestinationInfoSet) :
         LET r == get_destination_info(travel_info, out)
             t == trace \o <<StepEvent("get_destination_info", <<travel_info>>)>> \o r.calls
         IN  /\ destination_info' = r.ret
             /\ warnings' = warnings \o r.warns
             /\ IF IsNone(r.ret)
                  THEN /\ trace' = Append(t, YieldEvent(workflow_completed, Apology[3]))
                       /\ pc' = "yield_final"
                  ELSE /\ trace' = Append(t, YieldEvent(run_response, Progress[4]))
                       /\ pc' = "yield4"
    /\ UNCHANGED <<travel_request, travel_info, flight_details, travel_plan, flightVars, placesVars>>

\* lines 296-312: step 4, then the partial report or the plan; the f-string of
\* the partial report reads fields of flight_details and destination_info and
\* raises AttributeError, outside any try, when one of them is not a model
RunStep4 ==
    /\ pc = "yield4"
    /\ \E out \in AgentOutcomes({}) :
         LET r == generate_travel_plan(travel_info, flight_details, destination_info, out)
             t == trace \o <<StepEvent("generate_travel_plan",
                                       <<travel_info, flight_details, destination_info>>)>>
                        \o r.calls
         IN  /\ travel_plan' = r.ret
             /\ warnings' = warnings \o r.warns
             /\ IF IsNone(r.ret)
                  THEN IF IsModel(flight_details) /\ IsModel(destination_info)
                         THEN /\ trace' = Append(t, YieldEvent(workflow_completed,
                                                 PartialReport(flight_details, destination_info)))
                              /\ pc' = "yield_final"
                         ELSE /\ trace' = t
                              /\ pc' = "raised"
                  ELSE /\ trace' = Append(t, YieldEvent(workflow_completed, r.ret))
                       /\ pc' = "yield_final"
    /\ UNCHANGED <<travel_request, travel_info, flight_details, destination_info, flightVars, placesVars>>

\* the return after an apology or the partial report, or the end of the body
RunReturn ==
    /\ pc = "yield_final"
    /\ pc' = "returned"
    /\ UNCHANGED <<travel_request, travel_info, flight_details, destination_info,
                   travel_plan, trace, warnings, flightVars, placesVars>>

Next ==
    \/ RunStart
    \/ RunStep1
    \/ RunStep2
    \/ RunStep3
    \/ RunStep4
    \/ RunReturn

Spec == Init /\ [][Next]_vars

----------------------------------------------------------------------------
(* The flight tool, called by the remote agent any number of times *)

InitFlight ==
    /\ pc = "created"
    /\ travel_request = Str(<<"alpha">>)
    /\ travel_info = Unset
    /\ flight_details = Unset
    /\ destination_info = Unset
    /\ travel_plan = Unset
    /\ trace = <<>>
    /\ warnings = <<>>
    /\ now \in StartDates
    /\ fpc = "idle"
    /\ fargs = Unset
    /\ fsent = <<>>
    /\ fout = NotCalled
    /\ fresult = Unset
    /\ api_key = Str(<<"AIza">>)
    /\ ppc = "idle"
    /\ pquery = Unset
    /\ psent = <<>>
    /\ pout = NotCalled
    /\ presult = Unset

\* one call of FlightToolkit.search_flights, from its entry to its return
SearchFlights ==
    /\ fpc = "idle"
    /\ \E a \in FlightArgs :
         \E out \in (IF _validate_inputs(a.origin, a.destination, a.departure_date,
                                         a.return_date, a.adults) = None
                       THEN RemoteOutcomes ELSE {NotCalled}) :
            LET r == FlightToolkit_search_flights(a, now, out)
            IN  /\ fargs' = a
                /\ fsent' = r.sent
                /\ fout' = out
                /\ fresult' = r.ret
    /\ fpc' = "returned"
    /\ UNCHANGED <<now, runVars, placesVars>>

\* the caller has taken the result
FlightDone ==
    /\ fpc = "returned"
    /\ fpc' = "idle"
    /\ fargs' = Unset
    /\ fsent' = <<>>
    /\ fout' = NotCalled
    /\ fresult' = Unset
    /\ UNCHANGED <<now, runVars, placesVars>>

\* midnight passes between two calls
Tick ==
    /\ fpc = "idle"
    /\ \E s \in StartDates : ToOrdinal(now) - ToOrdinal(s) \in 0..(MaxTicks - 1)
    /\ now' = AddDays(now, 1)
    /\ UNCHANGED <<fpc, fargs, fsent, fout, fresult, runVars, placesVars>>

NextFlight ==
    \/ SearchFlights
    \/ FlightDone
    \/ Tick

SpecFlight == InitFlight /\ [][NextFlight]_vars

----------------------------------------------------------------------------
(* SimplifiedMapTools.search_places.  The provider's answer is the dict      *)
(* response.json() gives; its numbers are written as the text json.dumps     *)
(* writes for them.                                                          *)

\* line 48: the slice [:10]
PlacesLimit == 10

\* mutant of FirstPlaces: the slice is left out
FirstPlaces_All(l) == l

\* line 48: l[:10]
FirstPlaces(l) == SubSeq(l, 1, IF Len(l) < PlacesLimit THEN Len(l) ELSE PlacesLimit)

\* line 54: ", ".join(types)
RECURSIVE CommaSpaceJoin(_)
CommaSpaceJoin(types) ==
    IF Len(types) = 0 THEN ""
    ELSE IF Len(types) = 1 THEN types[1]
    ELSE types[1] \o ", " \o CommaSpaceJoin(Tail(types))

\* lines 49-55: place_details
PlaceDetails(place) ==
    [name |-> DictGet(place, "name", "Unknown"),
     address |-> DictGet(place, "formatted_address", "No address"),
     rating |-> DictGet(place, "rating", "0"),
     total_ratings |-> DictGet(place, "user_ratings_total", "0"),
     type |-> CommaSpaceJoin(DictGet(place, "types", <<"Unknown">>))]

\* the text json.dumps writes for one place_details
DumpPlace(p) ==
    DumpObject(<<"name", "address", "rating", "total_ratings", "type">>,
               <<<<JString(p.name)>>, <<JString(p.address)>>, <<JNumber(p.rating)>>,
                 <<JNumber(p.total_ratings)>>, <<JString(p.type)>>>>)

\* line 58: json.dumps(places, indent=2)
json_dumps_places(places) ==
    [kind |-> "str", json |-> DumpArray([i \in DOMAIN places |-> DumpPlace(places[i])])]

\* lines 34-58: the body of the try, with the value it returns or the
\* exception it raises
PlacesTryBody(out) ==
    IF out.kind = "raise" THEN Exc(out.type, out.msg)
    ELSE IF out.doc.kind # "dict"
      THEN Exc("AttributeError", <<"'list' object has no attribute 'get'">>)
    ELSE LET results == out.doc.d IN
         IF ~("status" \in DOMAIN results /\ results["status"] = "OK")
           THEN Str(<<"Error searching Google Maps: ", DictGet(results, "status", "None"),
                      " (", DictGet(results, "error_message", "No error message provided"),
                      ")">>)
           ELSE json_dumps_places(
                  [i \in DOMAIN FirstPlaces(DictGet(results, "results", <<>>)) |->
                      PlaceDetails(FirstPlaces(DictGet(results, "results", <<>>))[i])])

\* mutant of search_places: the check of the API key is left out
search_places_NoKeyCheck(key, query, out) ==
    LET r == PlacesTryBody(out)
    IN  [ret |-> IF r.kind = "exc" THEN Str(<<"Error searching places: ">> \o r.msg) ELSE r,
         sent |-> <<[query |-> query, key |-> key]>>]

\* search_places(query) on a toolkit whose api_key is key: the value it
\* returns and the requests it sent
search_places(key, query, out) ==
    IF Falsy(key)
      THEN [ret |-> Str(<<"Error: Google Maps API key is not configured.">>), sent |-> <<>>]
      ELSE LET r == PlacesTryBody(out)
           IN  [ret |-> IF r.kind = "exc" THEN Str(<<"Error searching places: ">> \o r.msg)
                        ELSE r,
                sent |-> <<[query |-> query, key |-> key]>>]

----------------------------------------------------------------------------
(* The inputs of the place search *)

\* the most results the provider returns
MaxPlaces == 12

\* line 13: os.getenv("GOOGLE_MAPS_API_KEY")
ApiKeys == {None, Str(<<>>), Str(<<"AIza">>)}

Queries == {Str(<<"museums in Paris">>), Str(<<"cafes">>), Str(<<>>)}

\* the k-th place of the provider: with every field, with a name only, with
\* an empty list of types, with no field
PlaceNo(k) ==
    CASE k % 4 = 1 -> [name |-> "P" \o ToString(k), formatted_address |-> "A" \o ToString(k),
                       rating |-> "4.5", user_ratings_total |-> ToString(100 + k),
                       types |-> <<"museum", "point_of_interest">>]
      [] k % 4 = 2 -> [name |-> "P" \o ToString(k)]
      [] k % 4 = 3 -> [name |-> "P" \o ToString(k), rating |-> "3", types |-> <<>>]
      [] OTHER -> <<>>

\* the provider's result lists: the first n places, or the last n backwards
ProviderLists ==
    {[k \in 1..n |-> PlaceNo(k)] : n \in 0..MaxPlaces}
    \cup {[k \in 1..n |-> PlaceNo(MaxPlaces + 1 - k)] : n \in 0..MaxPlaces}

\* the dicts response.json() gives
ProviderDicts ==
    {[status |-> "OK", results |-> l] : l \in ProviderLists}
    \cup {[status |-> "OK"], [results |-> <<PlaceNo(1)>>], <<>>}
    \cup {[status |-> s] : s \in {"ZERO_RESULTS", "REQUEST_DENIED"}}
    \cup {[status |-> "ZERO_RESULTS", results |-> <<>>],
          [status |-> "REQUEST_DENIED", error_message |-> "The provided API key is invalid.",
           results |-> <<>>]}

\* the outcomes of requests.get followed by response.json()
PlacesOutcomes ==
    {[kind |-> "json", doc |-> [kind |-> "dict", d |-> d]] : d \in ProviderDicts}
    \cup {[kind |-> "json", doc |-> [kind |-> "list"]]}
    \cup {[kind |-> "raise", type |-> "ConnectionError", msg |-> <<"Connection refused">>],
          [kind |-> "raise", type |-> "JSONDecodeError", msg |-> <<"Expecting value">>]}

----------------------------------------------------------------------------
(* The place search, called by the remote agent any number of times *)

InitPlaces ==
    /\ pc = "created"
    /\ travel_request = Str(<<"alpha">>)
    /\ travel_info = Unset
    /\ flight_details = Unset
    /\ destination_info = Unset
    /\ travel_plan = Unset
    /\ trace = <<>>
    /\ warnings = <<>>
    /\ now = DateTime(2026, 12, 30)
    /\ fpc = "idle"
    /\ fargs = Unset
    /\ fsent = <<>>
    /\ fout = NotCalled
    /\ fresult = Unset
    /\ api_key \in ApiKeys
    /\ ppc = "idle"
    /\ pquery = Unset
    /\ psent = <<>>
    /\ pout = NotCalled
    /\ presult = Unset

\* one call of search_places, from its entry to its return
SearchPlaces ==
    /\ ppc = "idle"
    /\ \E q \in Queries :
         \E out \in PlacesOutcomes :
            LET r == search_places(api_key, q, out)
            IN  /\ pquery' = q
                /\ psent' = r.sent
                /\ pout' = IF r.sent = <<>> THEN NotCalled ELSE out
                /\ presult' = r.ret
    /\ ppc' = "returned"
    /\ UNCHANGED <<api_key, runVars, flightVars>>

\* the caller has taken the result
PlacesDone ==
    /\ ppc = "returned"
    /\ ppc' = "idle"
    /\ pquery' = Unset
    /\ psent' = <<>>
    /\ pout' = NotCalled
    /\ presult' = Unset
    /\ UNCHANGED <<api_key, runVars, flightVars>>

NextPlaces ==
    \/ SearchPlaces
    \/ PlacesDone

SpecPlaces == InitPlaces /\ [][NextPlaces]_vars

----------------------------------------------------------------------------
(* Reading the trace *)

\* the step methods in the order run() calls them, and the local each one sets
StepNames ==
    <<"extract_travel_info", "search_flights", "get_destination_info",
      "generate_travel_plan">>

Result(k) ==
    CASE k = 1 -> travel_info
      [] k = 2 -> flight_details
      [] k = 3 -> destination_info
      [] k = 4 -> travel_plan

IsStep(e) == e.type = "step"
IsYield(e) == e.type = "yield"

\* the positions of trace at which step k was invoked
StepAt(k) == {i \in DOMAIN trace : IsStep(trace[i]) /\ trace[i].name = StepNames[k]}

\* the notifications yielded after position i
YieldsAfter(i) == SelectSeq(SubSeq(trace, i + 1, Len(trace)), IsYield)

\* the outcomes of the calls made to an agent
OutcomesOf(agent) ==
    {trace[i].outcome : i \in {j \in DOMAIN trace :
                                 trace[j].type = "agent" /\ trace[j].agent = agent}}

Finished == pc \in {"yield_final", "returned"}

----------------------------------------------------------------------------
(* C1: the steps of run() are invoked only in the order extract intent,     *)
(* search flights, fetch destination info, compose itinerary; a step is     *)
(* invoked only after the previous step returned a result (not None), and   *)
(* the entry right before each step's invocation is that step's own         *)
(* progress notification.                                                   *)
C1_FixedStepOrder ==
    LET steps == SelectSeq(trace, IsStep) IN
    /\ Len(steps) <= 4
    /\ \A k \in 1..Len(steps) : steps[k].name = StepNames[k]
    /\ \A k \in 1..4 : \A i \in StepAt(k) :
         /\ i > 1
         /\ trace[i - 1] = YieldEvent(run_response, Progress[k])
         /\ k > 1 => Result(k - 1) \notin {Unset, None}

\* all four steps were invoked, the last one after three results
C1_Witness ==
    /\ StepAt(4) # {}
    /\ \A k \in 1..3 : Result(k) \notin {Unset, None}

(* C2: for each of steps 1 to 3, when the step returned None the next       *)
(* notification is the final one (tagged workflow_completed), it carries    *)
(* that step's apology, and no later step is invoked.                       *)
C2_NoResultStops ==
    \A k \in 1..3 : Result(k) = None =>
        /\ Finished
        /\ \A i \in StepAt(k) :
             /\ YieldsAfter(i) = <<YieldEvent(workflow_completed, Apology[k])>>
             /\ \A j \in (i + 1)..Len(trace) : ~IsStep(trace[j])
        /\ \A j \in (k + 1)..4 : StepAt(j) = {} /\ Result(j) = Unset
        /\ k = 1 => trace[Len(trace)].content.val =
             <<"Sorry, I couldn't extract the necessary travel information. Please provide more details about your trip.">>

\* the intent extractor returned None and the run ended on the apology for
\* missing travel details
C2_Witness ==
    /\ travel_info = None
    /\ pc = "returned"
    /\ trace[Len(trace)] = YieldEvent(workflow_completed, Apology[1])
    /\ StepAt(2) = {} /\ StepAt(3) = {} /\ StepAt(4) = {}

\* a remote outcome that is an exception or whose content is no TravelInfo
Malformed(out, cls) ==
    \/ out.kind = "raises"
    \/ out.kind = "None"
    \/ out.kind = "RunResponse" /\ ~IsInstance(out.content, cls)

(* C3: extract_travel_info never raises, and whenever the remote call threw *)
(* or returned content that is not a TravelInfo, it returns None, so that   *)
(* run() ends on the apology for missing travel details.                    *)
C3_MalformedIntentIsNone ==
    \A out \in OutcomesOf("travel_info_agent") :
        Malformed(out, "TravelInfo") =>
            /\ travel_info = None
            /\ Finished
            /\ YieldsAfter(1) = <<YieldEvent(workflow_completed, Apology[1])>>

\* the four text fields of a DestinationInfo
TextFields == {"accommodations", "dining", "attractions", "transportation"}

(* C4: when the remote call inside get_destination_info threw, the record   *)
(* it returned is the placeholder record, with each of the four text fields *)
(* present and a non-empty string, and run() goes on to the itinerary step  *)
(* with that record: it yields the progress notification of step 4, never   *)
(* the apology of step 3, and generate_travel_plan, once invoked, is        *)
(* invoked with that record.                                                *)
C4_ThrowGivesPlaceholders ==
    Raises \in OutcomesOf("destination_info_agent") =>
        /\ destination_info = fallback_info
        /\ \A f \in TextFields :
             /\ f \in DOMAIN destination_info
             /\ Len(destination_info[f]) = 1
             /\ destination_info[f][1] # ""
        /\ \A i \in StepAt(3) :
             /\ YieldsAfter(i)[1] = YieldEvent(run_response, Progress[4])
             /\ \A j \in DOMAIN YieldsAfter(i) : YieldsAfter(i)[j].content # Apology[3]
        /\ \A i \in StepAt(4) : trace[i].args[3] = fallback_info
        /\ pc # "yield4" => StepAt(4) # {}

\* the destination lookup threw and the itinerary step ran with the placeholders
C4_Witness ==
    /\ Raises \in OutcomesOf("destination_info_agent")
    /\ \E i \in StepAt(4) : trace[i].args[3] = fallback_info
    /\ OutcomesOf("travel_plan_agent") # {}

(* C5, as claimed: get_destination_info returns a record, never None, for   *)
(* every outcome of its remote call, so run() never yields the apology of   *)
(* step 3.                                                                  *)
C5_NeverNull ==
    StepAt(3) # {} =>
        /\ destination_info # None
        /\ \A i \in DOMAIN trace : IsYield(trace[i]) => trace[i].content # Apology[3]

(* C5, amended: get_destination_info never raises; it returns the           *)
(* placeholder record when the remote call threw, gave no response object,  *)
(* or was never made because the query could not be built; otherwise it     *)
(* returns the content of the response as it is, which is None exactly when *)
(* the response carries no content, and then run() ends on the apology of   *)
(* step 3 without invoking the itinerary step.                              *)
C5_NullOnlyOnEmptyContent ==
    \A i \in StepAt(3) :
        LET outs == OutcomesOf("destination_info_agent") IN
        /\ pc = "raised" => StepAt(4) # {}
        /\ destination_info # Unset
        /\ (outs = {} \/ Raises \in outs \/ NoResponse \in outs)
              => destination_info = fallback_info
        /\ \A out \in outs : out.kind = "RunResponse" => destination_info = out.content
        /\ destination_info = None <=> RunResponse(None) \in outs
        /\ destination_info = None =>
              /\ Finished
              /\ YieldsAfter(i) = <<YieldEvent(workflow_completed, Apology[3])>>
              /\ StepAt(4) = {}

\* the remote call answered without content and run() ended on the apology of step 3
C5_Witness ==
    /\ RunResponse(None) \in OutcomesOf("destination_info_agent")
    /\ destination_info = None
    /\ pc = "returned"
    /\ trace[Len(trace)] = YieldEvent(workflow_completed, Apology[3])

(* C6: when generate_travel_plan returned None after steps 1 to 3 each      *)
(* returned a result, the final notification of run() is the partial report *)
(* assembled from recommended_flights and best_option of the flight record  *)
(* and the four text fields of the destination record.                      *)
C6_PartialReport ==
    (StepAt(4) # {} /\ travel_plan = None) =>
        /\ Finished
        /\ IsModel(flight_details)
        /\ IsModel(destination_info)
        /\ trace[Len(trace)] = YieldEvent(workflow_completed,
                                          PartialReport(flight_details, destination_info))

----------------------------------------------------------------------------
(* Reading a finished call of the flight tool *)

Returned == fpc = "returned"

\* the call's arguments failed _validate_inputs
ValidationFailed ==
    _validate_inputs(fargs.origin, fargs.destination, fargs.departure_date,
                     fargs.return_date, fargs.adults) # None

\* the first piece of the returned text
Prefix(v) == IF v.kind = "str" /\ "val" \in DOMAIN v /\ Len(v.val) > 0 THEN v.val[1] ELSE ""

(* C7: FlightToolkit.search_flights always returns a string and never       *)
(* raises: a validation failure gives a "Validation error: ..." text, a     *)
(* ResponseError of the remote call an "Error searching flights: ..." text  *)
(* that describes the failure, any other exception an "An unexpected error  *)
(* occurred: ..." text, and a processed answer the JSON document.           *)
C7_AlwaysAString ==
    Returned =>
        /\ fresult.kind = "str"
        /\ ValidationFailed =>
             /\ Prefix(fresult) = "Validation error: "
             /\ Len(fresult.val) >= 2
        /\ fout.kind = "ResponseError" =>
             /\ Prefix(fresult) = "Error searching flights: "
             /\ Len(fresult.val) >= 2
        /\ fout.kind = "Exception" =>
             fresult = Str(<<"An unexpected error occurred: ">> \o fout.msg)
        /\ (fout.kind = "data" /\ "json" \notin DOMAIN fresult) =>
             Prefix(fresult) = "An unexpected error occurred: "
        /\ "json" \in DOMAIN fresult => fout.kind = "data"

\* a remote error that names the failing parameter was turned into text
C7_Witness ==
    /\ Returned
    /\ fout.kind = "ResponseError"
    /\ fresult = Str(<<"Error searching flights: ", "INVALID DATE", ": ",
                       "Date is in the past", " (parameter: ", "departureDate", ")",
                       "; ", "Error", ": ", "bad">>)

\* an airport code that is missing or whose length is not 3
BadCode(c) == c.kind = "None" \/ Len(c.val) # 3

(* C8: when the origin or the destination airport code has a length other   *)
(* than 3 (the empty code included), search_flights returns one of the two  *)
(* validation error texts about the codes and sends no remote request.      *)
C8_BadCodesRejected ==
    (Returned /\ (BadCode(fargs.origin) \/ BadCode(fargs.destination))) =>
        /\ fresult \in
             {Str(<<"Validation error: ", "Origin and destination airport codes are required">>),
              Str(<<"Validation error: ", "Airport codes must be 3-letter IATA codes">>)}
        /\ fsent = <<>>
        /\ fout = NotCalled

\* a four-letter destination next to a good origin was rejected
C8_Witness ==
    /\ Returned
    /\ fargs.origin = CodeOfLen(3)
    /\ fargs.destination = CodeOfLen(4)
    /\ fresult = Str(<<"Validation error: ", "Airport codes must be 3-letter IATA codes">>)
    /\ fsent = <<>>

(* C9: no remote request is ever sent whose returnDate precedes its         *)
(* departureDate: a return date strictly before the departure date gives a  *)
(* validation error and no remote call.                                     *)
C9_ReturnNotBeforeDeparture ==
    Returned =>
        \A i \in DOMAIN fsent :
            ("returnDate" \in DOMAIN fsent[i] /\ Parses(fsent[i]["returnDate"])
                                              /\ Parses(fsent[i]["departureDate"]))
              => ~DateLess(strptime(fsent[i]["returnDate"]),
                           strptime(fsent[i]["departureDate"]))

\* the day after dt in the calendar
CalendarSuccessor(dt) ==
    IF dt.day < DaysInMonth(dt.year, dt.month) THEN DateTime(dt.year, dt.month, dt.day + 1)
    ELSE IF dt.month < 12 THEN DateTime(dt.year, dt.month + 1, 1)
    ELSE DateTime(dt.year + 1, 1, 1)

(* C10: a call with an empty departure_date and otherwise valid arguments   *)
(* sends exactly one remote request, and its departureDate is the date of   *)
(* the day after the call, written as YYYY-MM-DD.                           *)
C10_DefaultsToTomorrow ==
    (Returned /\ fargs.departure_date = Str(<<>>) /\ ~ValidationFailed) =>
        /\ Len(fsent) = 1
        /\ fout # NotCalled
        /\ Parses(fsent[1]["departureDate"])
        /\ strptime(fsent[1]["departureDate"]) = CalendarSuccessor(now)
        /\ \A i \in 2..3 : fsent[1]["departureDate"].val[i] \in {Pad2(n) : n \in 1..31}

\* called without a date on the last day of 2026: the request asks for 2027-01-01
C10_Witness ==
    /\ Returned
    /\ fargs.departure_date = Str(<<>>)
    /\ now = DateTime(2026, 12, 31)
    /\ Len(fsent) = 1
    /\ fsent[1]["departureDate"] = Str(<<"2027", "01", "01">>)

----------------------------------------------------------------------------
(* Reading the JSON text a call of the flight tool returned *)

\* a well-formed airport code: three letters
GoodCode(c) == c.kind = "str" /\ Len(c.val) = 3

\* the call returned a JSON text
ReturnedJson == Returned /\ "json" \in DOMAIN fresult

\* the raw offers the aggregator returned
RawOffers == IF fout.data.kind = "None" THEN <<>> ELSE fout.data.items

\* the returned text is a JSON object whose count is the length of its
\* flights list, with one entry per raw offer
CountMatchesFlights ==
    LET r == json_loads(fresult.json) IN
    /\ r.ok
    /\ JHas(r.val, "count") /\ JHas(r.val, "flights")
    /\ JGet(r.val, "count").j = "num"
    /\ JGet(r.val, "flights").j = "arr"
    /\ JGet(r.val, "count").v = ToString(Len(JGet(r.val, "flights").items))
    /\ Len(JGet(r.val, "flights").items) = Len(RawOffers)

OrNA(d, key) == IF key \in DOMAIN d THEN d[key] ELSE "N/A"

\* what the claim expects of one reshaped segment out, given the raw segment
SegmentRendered(raw, out) ==
    /\ JGet(JGet(out, "departure"), "terminal") = [j |-> "str", v |-> OrNA(raw.departure, "terminal")]
    /\ JGet(JGet(out, "arrival"), "terminal") = [j |-> "str", v |-> OrNA(raw.arrival, "terminal")]
    /\ JGet(out, "duration") = [j |-> "str", v |-> OrNA(raw, "duration")]
    /\ JGet(out, "aircraft") =
         [j |-> "str", v |-> IF "aircraft" \in DOMAIN raw THEN OrNA(raw.aircraft, "code") ELSE "N/A"]

(* C12: in the reshaped output, each optional field the raw response lacks  *)
(* (a segment's departure or arrival terminal, its aircraft code, its       *)
(* duration, an itinerary's duration) is the string "N/A", and each that is *)
(* present is copied unchanged.                                             *)
C12_MissingIsNA ==
    ReturnedJson =>
        LET flights == JGet(json_loads(fresult.json).val, "flights").items IN
        \A i \in DOMAIN RawOffers :
            LET rawIts == RawOffers[i].itineraries
                outIts == JGet(flights[i], "itineraries").items
            IN  /\ Len(outIts) = Len(rawIts)
                /\ \A j \in DOMAIN rawIts :
                     LET rawSegs == rawIts[j].segments
                         outSegs == JGet(outIts[j], "segments").items
                     IN  /\ JGet(outIts[j], "duration") = [j |-> "str", v |-> OrNA(rawIts[j], "duration")]
                         /\ Len(outSegs) = Len(rawSegs)
                         /\ \A k \in DOMAIN rawSegs : SegmentRendered(rawSegs[k], outSegs[k])

\* an offer with a bare segment, a full one and one whose aircraft has no code
\* was reshaped
C12_Witness ==
    /\ ReturnedJson
    /\ Len(RawOffers) = 2
    /\ RawOffers[2].itineraries = <<ItinBare, ItinFull>>
    /\ ItinBare.segments = <<SegBare, SegMixed>>

(* C13: no remote flight-offer request is sent with a departure date        *)
(* earlier than the date of the call.                                       *)
C13_NoPastDeparture ==
    Returned =>
        \A i \in DOMAIN fsent :
            Parses(fsent[i]["departureDate"])
              => ~DateLess(strptime(fsent[i]["departureDate"]), now)

----------------------------------------------------------------------------
(* Reading what a call of search_places returned *)

PlacesReturned == ppc = "returned"

\* the provider answered with a dict whose status is OK
ProviderSaidOK ==
    /\ pout.kind = "json"
    /\ pout.doc.kind = "dict"
    /\ "status" \in DOMAIN pout.doc.d
    /\ pout.doc.d["status"] = "OK"

\* entry e of the returned list is the reshaped place raw
Reshaped(raw, e) ==
    /\ e.j = "obj"
    /\ e.keys = <<"name", "address", "rating", "total_ratings", "type">>
    /\ JGet(e, "name").j = "str"
    /\ JGet(e, "address").j = "str"
    /\ JGet(e, "rating").j = "num"
    /\ JGet(e, "total_ratings").j = "num"
    /\ JGet(e, "type").j = "str"
    /\ "name" \in DOMAIN raw => JGet(e, "name").v = raw["name"]
    /\ "formatted_address" \in DOMAIN raw => JGet(e, "address").v = raw["formatted_address"]
    /\ "rating" \in DOMAIN raw => JGet(e, "rating").v = raw["rating"]
    /\ "user_ratings_total" \in DOMAIN raw
         => JGet(e, "total_ratings").v = raw["user_ratings_total"]

(* C14: when the provider answers with status OK and n results, the text    *)
(* search_places returns is a list of exactly min(n, 10) entries: the first *)
(* ones of the provider, in its order, each an object with the keys name,   *)
(* address, rating, total_ratings and type.                                 *)
C14_FirstTenReshaped ==
    (PlacesReturned /\ ProviderSaidOK /\ "results" \in DOMAIN pout.doc.d) =>
        LET raw == pout.doc.d["results"]
            n == Len(raw)
        IN  /\ "json" \in DOMAIN presult
            /\ LET r == json_loads(presult.json) IN
               /\ r.ok
               /\ r.val.j = "arr"
               /\ Len(r.val.items) = (IF n < 10 THEN n ELSE 10)
               /\ \A k \in DOMAIN r.val.items : Reshaped(raw[k], r.val.items[k])

\* the provider gave more than ten results, last place first, and ten came back
C14_Witness ==
    /\ PlacesReturned
    /\ ProviderSaidOK
    /\ "results" \in DOMAIN pout.doc.d
    /\ Len(pout.doc.d["results"]) > 10
    /\ pout.doc.d["results"][1] = PlaceNo(MaxPlaces)
    /\ "json" \in DOMAIN presult
    /\ Len(json_loads(presult.json).val.items) = 10

(* C15: search_places never raises; when the API key is missing, the         *)
(* provider's status is not OK or the remote call throws, it returns a plain *)
(* error text and not a list; when the API key is missing it sends no        *)
(* request.                                                                  *)
C15_ErrorsAreTexts ==
    PlacesReturned =>
        /\ presult.kind = "str"
        /\ (Falsy(api_key) \/ ~ProviderSaidOK) =>
              /\ "json" \notin DOMAIN presult
              /\ Prefix(presult) \in {"Error: Google Maps API key is not configured.",
                                      "Error searching Google Maps: ",
                                      "Error searching places: "}
        /\ Falsy(api_key) => psent = <<>>
        /\ ~Falsy(api_key) => Len(psent) = 1

\* a call without an API key returned its error text
C15_Witness ==
    /\ PlacesReturned
    /\ Falsy(api_key)
    /\ presult = Str(<<"Error: Google Maps API key is not configured.">>)
    /\ psent = <<>>

\* the calls run() made to an agent
CallsOf(agent) == {i \in DOMAIN trace : trace[i].type = "agent" /\ trace[i].agent = agent}

(* C16: every run ends by returning, having yielded exactly one             *)
(* notification tagged workflow_completed, the last of its notifications,   *)
(* whatever the outcomes of the steps; each of the four step agents is      *)
(* called at most once and the navigation agent is never called.            *)
C16_OneCompletionLast ==
    /\ pc # "raised"
    /\ pc = "returned" =>
          LET ys == YieldsAfter(0) IN
          /\ Len(ys) > 0
          /\ ys[Len(ys)].event = workflow_completed
          /\ \A i \in 1..(Len(ys) - 1) : ys[i].event # workflow_completed
    /\ \A agent \in {"travel_info_agent", "flight_search_agent", "destination_info_agent",
                     "travel_plan_agent"} : Cardinality(CallsOf(agent)) <= 1
    /\ CallsOf("navigation_agent") = {}

====
